---- MODULE Spec2Model ----
(***************************************************************************)
(* Model of the grid-based hydraulic erosion engine of                     *)
(* src/lib/erosion-physics.ts (class ErosionSystem) and of its per-frame   *)
(* driver.                                                                 *)
(*                                                                         *)
(* Numbers.  The engine keeps its fields in Float32Array and computes in   *)
(* IEEE arithmetic.  Here a finite number is a fixed-point integer in      *)
(* units of 1/Scale (Scale = 10^6, so 0.0001 is 100 units), a product or a *)
(* quotient is rounded toward minus infinity, and, as in IEEE arithmetic   *)
(* at these magnitudes, the product or quotient of two non-zero numbers is *)
(* never zero.  Magnitudes saturate at MaxNum (1000.0), which only the     *)
(* velocity of a nearly dry cell comes near; Float32 overflows far later.  *)
(* The IEEE value NaN is the reserved value NaN: every arithmetic operator *)
(* propagates it and every comparison with it is false, as in the code.    *)
(***************************************************************************)
EXTENDS Integers, Sequences, FiniteSets, TLC

Base == 10 * 100
Scale == Base * Base
MaxNum == Base * Scale
NaN == 0 - 2147483647

IsNaN(a) == a = NaN

\* IEEE comparisons: false as soon as one side is NaN.
Lt(a, b) == a # NaN /\ b # NaN /\ a < b
Gt(a, b) == a # NaN /\ b # NaN /\ a > b
Ge(a, b) == a # NaN /\ b # NaN /\ a >= b
Le(a, b) == a # NaN /\ b # NaN /\ a <= b

Abs(a) == IF a < 0 THEN 0 - a ELSE a
Clip(r) == IF r > MaxNum THEN MaxNum ELSE IF r < 0 - MaxNum THEN 0 - MaxNum ELSE r

Add(a, b) == IF a = NaN \/ b = NaN THEN NaN ELSE Clip(a + b)
Sub(a, b) == IF a = NaN \/ b = NaN THEN NaN ELSE Clip(a - b)

\* floor(a * b / Scale) on 32-bit integers, by splitting both factors.
MulFloor(a, b) ==
  LET qa == a \div Base
      ra == a % Base
      qb == b \div Base
      rb == b % Base
  IN  qa * qb + ((qa * rb + ra * qb + ((ra * rb) \div Base)) \div Base)

\* Whether |a * b| / Scale is beyond MaxNum, found without multiplying.
MulSaturates(a, b) ==
  LET qa == Abs(a) \div Base
      qb == Abs(b) \div Base
  IN  qa > 0 /\ qb > (MaxNum + Base) \div qa

\* A non-zero product or quotient does not underflow to zero.
NonZero(r) == IF r = 0 THEN 1 ELSE r

Mul(a, b) ==
  IF a = NaN \/ b = NaN THEN NaN
  ELSE IF a = 0 \/ b = 0 THEN 0
  ELSE IF b = Scale THEN a
  ELSE IF a = Scale THEN b
  ELSE IF MulSaturates(a, b)
  THEN (IF (a < 0) = (b < 0) THEN MaxNum ELSE 0 - MaxNum)
  ELSE NonZero(Clip(MulFloor(a, b)))

\* The n leading digits in base d of r / b for 0 <= r < b: floor(r * d^n / b).
RECURSIVE LongDiv(_, _, _, _, _)
LongDiv(r, b, d, acc, n) ==
  IF n = 0 THEN acc
  ELSE LongDiv((r * d) % b, b, d, acc * d + ((r * d) \div b), n - 1)

\* floor(a * Scale / b) for 0 < b <= 200.0, saturated: two digits in base
\* 1000 while r * 1000 fits 32 bits, six decimal digits otherwise.
DivFloor(a, b) ==
  LET q == a \div b
  IN  IF q >= Base THEN MaxNum
      ELSE IF q < 0 - Base THEN 0 - MaxNum
      ELSE IF b <= 2 * Scale THEN q * Scale + LongDiv(a % b, b, Base, 0, 2)
      ELSE q * Scale + LongDiv(a % b, b, 10, 0, 6)

\* a / b for a finite divisor b > 0 (every division the engine evaluates
\* with a non-zero divisor has a positive one).
Div(a, b) ==
  IF a = NaN \/ b = NaN THEN NaN
  ELSE IF a = 0 THEN 0
  ELSE IF b % Scale = 0 THEN NonZero(a \div (b \div Scale))
  ELSE IF b > 200 * Scale THEN NonZero(DivFloor(a \div 10, b \div 10))
  ELSE NonZero(DivFloor(a, b))

\* Math.max and Math.min return NaN when an argument is NaN.
Max(a, b) == IF a = NaN \/ b = NaN THEN NaN ELSE IF a >= b THEN a ELSE b
Min(a, b) == IF a = NaN \/ b = NaN THEN NaN ELSE IF a <= b THEN a ELSE b

\* The largest r with r * r <= a (in the model's product), bit by bit.
RECURSIVE SqrtBits(_, _, _)
SqrtBits(a, r, bit) ==
  IF bit = 0 THEN r
  ELSE LET t == r + bit
       IN  IF MulFloor(t, t) <= a THEN SqrtBits(a, t, bit \div 2)
           ELSE SqrtBits(a, r, bit \div 2)

\* Math.sqrt of a number a >= 1 (16777216 is 2^24, above sqrt(MaxNum)).
Sqrt(a) == IF a = NaN THEN NaN ELSE SqrtBits(a, 0, 16777216)

\* Math.sqrt(a * a + b * b), computed as max * sqrt(1 + (min / max)^2) so that
\* the squares neither vanish nor saturate.
Square(r) == MulFloor(r, r)

HypotOrdered(hi, lo) ==
  IF hi = 0 THEN 0
  ELSE IF lo = 0 THEN hi
  ELSE Mul(hi, Sqrt(Scale + Square(Div(lo, hi))))

Hypot(a, b) ==
  IF a = NaN \/ b = NaN THEN NaN
  ELSE HypotOrdered(Max(Abs(a), Abs(b)), Min(Abs(a), Abs(b)))

\* Decimal constants of the code, as numbers of the model.
Num(units, millionths) == units * Scale + millionths

(***************************************************************************)
(* The engine's constants (class fields and literals of the code).         *)
(***************************************************************************)
GRAVITY == Num(9, 810000)
PIPE_LENGTH == Num(1, 0)
CELL_AREA == Num(1, 0)
KC == Num(0, 500000)
KS == Num(0, 300000)
KD == Num(0, 200000)
KE == Num(0, 25000)
K_SMOOTH == Num(0, 500000)

One == Num(1, 0)
sourceWidth == 4
startY == 2
sourceRows == 2
sourceIntensity == Num(10, 0)
drainageRows == 10
drainageZone == 10
damping == Num(0, 980000)
depthEpsilon == Num(0, 100)
minCapacity == Num(0, 10000)
capacityScale == Num(5, 0)
maxErode == Num(0, 50000)
maxDeposit == Num(0, 10000)
minH == Num(0, 10000)
maxH == Num(2, 500000)
waterSensitivity == Num(10, 0)
dryShare == Num(0, 200000)
wetShare == Num(0, 800000)

(***************************************************************************)
(* State: the engine's fields, the caller's terrain array, and what the    *)
(* last simulate() call was given and computed on its way.                 *)
(***************************************************************************)
VARIABLES
  width, height,          \* this.width, this.height
  terrain,                \* the caller-owned heights array passed to simulate
  waterHeight, sediment,  \* this.waterHeight, this.sediment
  fluxL, fluxR, fluxT, fluxB,
  velocityX, velocityY,
  buffer,                 \* the Float32Array object each field refers to
  allocated,              \* number of Float32Array objects the engine created
  calls,                  \* number of simulate() calls made so far
  strokes,                \* number of dig and fill pointer events so far
  last                    \* arguments and intermediate fields of the last call

vars == <<width, height, terrain, waterHeight, sediment, fluxL, fluxR, fluxT,
          fluxB, velocityX, velocityY, buffer, allocated, calls, strokes, last>>

size == width * height
Cells == 0 .. (size - 1)
X(i) == i % width
Y(i) == i \div width

\* The boundary test without its x >= width - 1 disjunct: the right column
\* is treated as interior.
IsBoundaryOpenRight(i) == X(i) <= 0 \/ Y(i) <= 0 \/ Y(i) >= height - 1

\* x <= 0 || x >= this.width - 1 || y <= 0 || y >= this.height - 1
IsBoundary(i) ==
  X(i) <= 0 \/ X(i) >= width - 1 \/ Y(i) <= 0 \/ Y(i) >= height - 1

Zeros == [i \in Cells |-> 0]

(***************************************************************************)
(* Phase 1: addWater.                                                      *)
(***************************************************************************)
\* The source one column further to the left.
startXFurtherLeft == (width - sourceWidth) \div 2 - 1

\* Math.floor((this.width - sourceWidth) / 2)
startX == (width - sourceWidth) \div 2

\* The writes of the two nested loops from the k-th (y, x) pair on, in loop
\* order: waterHeight[idx] += amount when idx < length (a write below index 0
\* would be dropped by the typed array; no grid of width >= 2 produces one).
RECURSIVE SourceWrites(_, _, _)
SourceWrite(wh, amount, k, idx) ==
  IF idx < size /\ idx >= 0
  THEN SourceWrites([wh EXCEPT ![idx] = Add(wh[idx], amount)], amount, k + 1)
  ELSE SourceWrites(wh, amount, k + 1)

SourceWrites(wh, amount, k) ==
  IF k >= sourceRows * sourceWidth THEN wh
  ELSE SourceWrite(wh, amount, k,
                   (startY + (k \div sourceWidth)) * width + startX + (k % sourceWidth))

\* A source that adds nothing.
addWaterOff(wh, dt, flowRate, isRaining) == wh

addWater(wh, dt, flowRate, isRaining) ==
  IF ~isRaining THEN wh
  ELSE SourceWrites(wh, Mul(Mul(flowRate, dt), sourceIntensity), 0)

(***************************************************************************)
(* Phase 2: computeFlux.  The result maps each cell to its four outgoing   *)
(* fluxes.                                                                 *)
(***************************************************************************)
\* Math.min(1, num / den) for den >= 0: a zero denominator gives +Infinity
\* for a positive numerator (and the minimum is 1) and NaN for 0 / 0.  The
\* numerator is a water depth, which the engine never leaves negative.
RescaleFactor(num, den) ==
  IF num = NaN \/ den = NaN THEN NaN
  ELSE IF den = 0 THEN (IF num = 0 THEN NaN ELSE One)
  ELSE IF num >= den THEN One
  ELSE Div(num, den)

\* h = terrainHeight[i] + this.waterHeight[i]
surface(th, wh, i) == Add(th[i], wh[i])

\* Math.max(0, flux + factor * Math.max(0, h - hN))
outFlux(flux, factor, h, hN) == Max(0, Add(flux, Mul(factor, Max(0, Sub(h, hN)))))

\* if (sumFlux > 0) { K = Math.min(1, volume / (sumFlux * dt)); fL *= K; ... }
scaleFlux(fL, fR, fT, fB, K) ==
  [L |-> Mul(fL, K), R |-> Mul(fR, K), T |-> Mul(fT, K), B |-> Mul(fB, K)]

limitFlux(fL, fR, fT, fB, sumFlux, volume, dt) ==
  IF Gt(sumFlux, 0)
  THEN scaleFlux(fL, fR, fT, fB, RescaleFactor(volume, Mul(sumFlux, dt)))
  ELSE [L |-> fL, R |-> fR, T |-> fT, B |-> fB]

\* sumFlux = fL + fR + fT + fB
sumAndLimitFlux(fL, fR, fT, fB, volume, dt) ==
  limitFlux(fL, fR, fT, fB, Add(Add(Add(fL, fR), fT), fB), volume, dt)

computeFluxCell(th, wh, dt, factor, i) ==
  IF IsBoundary(i) THEN [L |-> 0, R |-> 0, T |-> 0, B |-> 0]
  ELSE sumAndLimitFlux(
         outFlux(fluxL[i], factor, surface(th, wh, i), surface(th, wh, i - 1)),
         outFlux(fluxR[i], factor, surface(th, wh, i), surface(th, wh, i + 1)),
         outFlux(fluxT[i], factor, surface(th, wh, i), surface(th, wh, i + width)),
         outFlux(fluxB[i], factor, surface(th, wh, i), surface(th, wh, i - width)),
         Mul(wh[i], CELL_AREA), dt)

\* factor does not depend on the cell.
fluxFactor(dt) == Div(Mul(Mul(dt, CELL_AREA), GRAVITY), PIPE_LENGTH)

computeFlux(th, wh, dt) ==
  [i \in DOMAIN wh |-> computeFluxCell(th, wh, dt, fluxFactor(dt), i)]

(***************************************************************************)
(* Phase 3: updateWaterAndVelocity.  The result maps each cell to its new  *)
(* depth w and velocity (vx, vy).                                          *)
(***************************************************************************)
inflow(fl, i) ==
  Add(Add(Add(fl[i - 1].R, fl[i + 1].L), fl[i + width].B), fl[i - width].T)

outflow(fl, i) == Add(Add(Add(fl[i].L, fl[i].R), fl[i].T), fl[i].B)

\* if (this.waterHeight[i] < 0) this.waterHeight[i] = 0
clampDepth(w) == IF Lt(w, 0) THEN 0 ELSE w

\* this.waterHeight[i] += dt * (inflow - outflow) / CELL_AREA, then the clamp
newDepth(wh, fl, dt, i) ==
  clampDepth(Add(wh[i], Div(Mul(dt, Sub(inflow(fl, i), outflow(fl, i))), CELL_AREA)))

\* u and v: the averaged flux through the cell in x and in y.
fluxThroughX(fl, i) ==
  Div(Sub(Add(Sub(fl[i - 1].R, fl[i].L), fl[i].R), fl[i + 1].L), Num(2, 0))

fluxThroughY(fl, i) ==
  Div(Sub(Add(Sub(fl[i - width].T, fl[i].B), fl[i].T), fl[i + width].B), Num(2, 0))

\* if (avgWaterHeight > 0.0001) velocity = (u / (CELL_AREA * w)) * 0.98 else 0
velocityOf(w, u, v) ==
  IF Gt(w, depthEpsilon)
  THEN [w |-> w,
        vx |-> Mul(Div(u, Mul(CELL_AREA, w)), damping),
        vy |-> Mul(Div(v, Mul(CELL_AREA, w)), damping)]
  ELSE [w |-> w, vx |-> 0, vy |-> 0]

updateCell(wh, fl, dt, i) ==
  IF IsBoundary(i) THEN [w |-> wh[i], vx |-> 0, vy |-> 0]
  ELSE velocityOf(newDepth(wh, fl, dt, i), fluxThroughX(fl, i), fluxThroughY(fl, i))

updateWaterAndVelocity(wh, fl, dt) == [i \in DOMAIN fl |-> updateCell(wh, fl, dt, i)]

(***************************************************************************)
(* Phase 4: erosionDeposition.  The loop visits the cells in index order   *)
(* and writes terrainHeight in place, so a cell reads the already updated  *)
(* heights of its left and lower neighbours.                               *)
(***************************************************************************)
\* The skip test without its last disjunct: boundaries only.
ErosionSkippedBoundaryOnly(i) == IsBoundary(i)

\* The skip test of the loop: boundaries and the drainage zone.
ErosionSkipped(i) == IsBoundary(i) \/ Y(i) >= height - drainageZone

\* The gradient of the terrain at cell i, as the loop reads it.
dHdX(th, i) == Div(Sub(th[i + 1], th[i - 1]), Mul(Num(2, 0), CELL_AREA))
dHdY(th, i) == Div(Sub(th[i + width], th[i - width]), Mul(Num(2, 0), CELL_AREA))

\* Math.max(0.01, KC * velocity * slope * 5.0)
capacityOf(velocity, slope) ==
  Max(minCapacity, Mul(Mul(Mul(KC, velocity), slope), capacityScale))

\* if (terrainHeight[i] < 0.01) terrainHeight[i] = 0.01
clampLow(h) == IF Lt(h, minH) THEN minH ELSE h

\* No ceiling at all.
noCeiling(h) == h

\* if (terrainHeight[i] > 2.5) terrainHeight[i] = 2.5
clampHigh(h) == IF Gt(h, maxH) THEN maxH ELSE h

\* The erode branch, given actualErode.
erode(h, currentSediment, actualErode) ==
  [h |-> clampLow(Sub(h, actualErode)), s |-> Add(currentSediment, actualErode)]

\* The deposit branch, given actualDeposit.
deposit(h, currentSediment, actualDeposit) ==
  [h |-> clampHigh(Add(h, actualDeposit)), s |-> Sub(currentSediment, actualDeposit)]

\* if (capacity > currentSediment) erode else deposit
exchange(h, currentSediment, capacity, dt, erosionRateMultiplier) ==
  IF Gt(capacity, currentSediment)
  THEN erode(h, currentSediment,
             Min(Mul(Mul(Mul(KS, Sub(capacity, currentSediment)), dt),
                     erosionRateMultiplier), maxErode))
  ELSE deposit(h, currentSediment,
               Min(Min(Mul(Mul(KD, Sub(currentSediment, capacity)), dt),
                       currentSediment), maxDeposit))

\* One visited cell: its new terrain height h and sediment s.
erodeCell(th, sed, vel, dt, erosionRateMultiplier, i) ==
  exchange(th[i], sed[i],
           capacityOf(Hypot(vel[i].vx, vel[i].vy), Hypot(dHdX(th, i), dHdY(th, i))),
           dt, erosionRateMultiplier)

\* The cells the loop does not skip.
ErosionCells == {j \in Cells : ~ErosionSkipped(j)}

\* The loop counting down: the greatest cell first.
Greatest(S) == CHOOSE j \in S : \A k \in S : j >= k

Least(S) == CHOOSE j \in S : \A k \in S : j <= k

\* The loop over the cells it still has to visit, in index order: the least
\* one is visited and the loop goes on with the arrays as that visit left them.
RECURSIVE erosionLoop(_, _, _, _, _, _)
erosionVisited(rest, j, c, th, sed, vel, dt, erosionRateMultiplier) ==
  erosionLoop(rest \ {j}, [th EXCEPT ![j] = c.h], [sed EXCEPT ![j] = c.s],
              vel, dt, erosionRateMultiplier)

erosionVisit(rest, j, th, sed, vel, dt, erosionRateMultiplier) ==
  erosionVisited(rest, j, erodeCell(th, sed, vel, dt, erosionRateMultiplier, j),
                 th, sed, vel, dt, erosionRateMultiplier)

erosionLoop(rest, th, sed, vel, dt, erosionRateMultiplier) ==
  IF rest = {} THEN [th |-> th, sed |-> sed]
  ELSE erosionVisit(rest, Least(rest), th, sed, vel, dt, erosionRateMultiplier)

erosionDeposition(th, sed, vel, dt, erosionRateMultiplier) ==
  erosionLoop(ErosionCells, th, sed, vel, dt, erosionRateMultiplier)

(***************************************************************************)
(* sampleBilinear and phase 5, transportSediment.  Coordinates are numbers *)
(* of the model; width and height are cell counts.                         *)
(***************************************************************************)
\* The weights exchanged: v0 * a + v1 * (1 - a).
lerpSwapped(v0, v1, a) == Add(Mul(v0, a), Mul(v1, One - a))

\* v0 * (1 - a) + v1 * a
lerp(v0, v1, a) == Add(Mul(v0, One - a), Mul(v1, a))

\* The interpolation, given x0 = floor(x), y0 = floor(y), ax = x - x0 and
\* ay = y - y0.
interpolate(map, x0, y0, ax, ay) ==
  lerp(lerp(map[y0 * width + x0], map[y0 * width + x0 + 1], ax),
       lerp(map[(y0 + 1) * width + x0], map[(y0 + 1) * width + x0 + 1], ax),
       ay)

sampleBilinear(map, x, y) ==
  IF Lt(x, 0) \/ Ge(x, (width - 1) * Scale) \/ Lt(y, 0) \/ Ge(y, (height - 1) * Scale)
  THEN 0
  ELSE IF x = NaN \/ y = NaN THEN NaN
  ELSE interpolate(map, x \div Scale, y \div Scale, x % Scale, y % Scale)

\* newSediment is a copy of this.sediment; every interior cell is sampled
\* from the old field at (x - u * dt, y - v * dt).
transportSediment(sed, vel, dt) ==
  [i \in DOMAIN sed |->
    IF IsBoundary(i) THEN sed[i]
    ELSE sampleBilinear(sed, Sub(X(i) * Scale, Mul(vel[i].vx, dt)),
                             Sub(Y(i) * Scale, Mul(vel[i].vy, dt)))]

\* The loop as the code runs it, over the cells in the sequence order from
\* its k-th on: sed is this.sediment, which the loop reads, and ns is
\* newSediment, which it writes.
transportRead(sed, ns) == sed

RECURSIVE transportLoop(_, _, _, _, _, _)
transportWrite(i, sed, ns, vel, dt) ==
  IF IsBoundary(i) THEN ns
  ELSE [ns EXCEPT ![i] = sampleBilinear(transportRead(sed, ns),
                                        Sub(X(i) * Scale, Mul(vel[i].vx, dt)),
                                        Sub(Y(i) * Scale, Mul(vel[i].vy, dt)))]

transportLoop(order, k, sed, ns, vel, dt) ==
  IF k > Len(order) THEN ns
  ELSE transportLoop(order, k + 1, sed,
                     transportWrite(order[k], sed, ns, vel, dt), vel, dt)

(***************************************************************************)
(* Phase 6: evaporate.                                                     *)
(***************************************************************************)
\* if (this.waterHeight[i] < 0.0001) this.waterHeight[i] = 0
snapDry(w) == IF Lt(w, depthEpsilon) THEN 0 ELSE w

\* No evaporation.
evaporateOff(wh, dt) == wh

evaporate(wh, dt) == [i \in DOMAIN wh |-> snapDry(Mul(wh[i], Sub(One, Mul(KE, dt))))]

(***************************************************************************)
(* Phase 7: smoothTerrain.  Reads terrainHeight, writes the copy newHeight *)
(* and copies it back.                                                     *)
(***************************************************************************)
\* (hL + hR + hT + hB) / 4
avgNeighbor(th, i) ==
  Div(Add(Add(Add(th[i - 1], th[i + 1]), th[i + width]), th[i - width]), Num(4, 0))

\* smoothingAmount * (0.2 + Math.min(1, waterHeight * 10) * 0.8)
effectiveSmoothingAmount(w, dt) ==
  Mul(Mul(K_SMOOTH, dt), Add(dryShare, Mul(Min(One, Mul(w, waterSensitivity)), wetShare)))

\* h + (avgNeighbor - h) * effectiveSmoothingAmount, then the two clamps
smoothCell(h, avg, amount) == clampHigh(clampLow(Add(h, Mul(Sub(avg, h), amount))))

\* The two clamps applied to every cell, the boundary included.
newHeightClampAll(th, wh, dt) ==
  [i \in DOMAIN th \cap DOMAIN wh |->
    IF IsBoundary(i) THEN clampHigh(clampLow(th[i]))
    ELSE smoothCell(th[i], avgNeighbor(th, i), effectiveSmoothingAmount(wh[i], dt))]

\* newHeight: a copy of terrainHeight in which the loop overwrites every
\* interior cell; the loop reads terrainHeight only.
newHeight(th, wh, dt) ==
  [i \in DOMAIN th \cap DOMAIN wh |->
    IF IsBoundary(i) THEN th[i]
    ELSE smoothCell(th[i], avgNeighbor(th, i), effectiveSmoothingAmount(wh[i], dt))]

\* The loop reads the array it writes.
smoothReadInPlace(th, nh) == nh

\* The loop as the code runs it, over the cells in the sequence order from
\* its k-th on: th is terrainHeight, which the loop reads, and nh is
\* newHeight, which it writes.
smoothRead(th, nh) == th

RECURSIVE smoothLoop(_, _, _, _, _, _)
smoothWrite(i, th, nh, wh, dt) ==
  IF IsBoundary(i) THEN nh
  ELSE [nh EXCEPT ![i] = smoothCell(smoothRead(th, nh)[i],
                                    avgNeighbor(smoothRead(th, nh), i),
                                    effectiveSmoothingAmount(wh[i], dt))]

smoothLoop(order, k, th, nh, wh, dt) ==
  IF k > Len(order) THEN nh
  ELSE smoothLoop(order, k + 1, th, smoothWrite(order[k], th, nh, wh, dt), wh, dt)

\* The smoothed heights stay in the scratch array.
copyBackSkipped(th, nh) == th

\* for (i ...) terrainHeight[i] = newHeight[i]: the caller's array afterwards.
copyBack(th, nh) == [i \in DOMAIN th |-> nh[i]]

smoothTerrain(th, wh, dt) == copyBack(th, newHeight(th, wh, dt))

(***************************************************************************)
(* Phase 8: applyOpenBoundary.                                             *)
(***************************************************************************)
\* A drain that stops one row short: dr below drainageRows - 1, and row 0.
DrainedOneRowShort(i) ==
  \/ \E dr \in 0 .. (drainageRows - 2) :
       /\ i - (height - 1 - dr) * width \in 0 .. (width - 1)
       /\ i >= 0
       /\ i < size
  \/ i \in 0 .. (width - 1)

\* The indices the loops zero: (height - 1 - dr) * width + x for dr below
\* drainageRows when it is inside the array, and x itself (row 0).
Drained(i) ==
  \/ \E dr \in 0 .. (drainageRows - 1) :
       /\ i - (height - 1 - dr) * width \in 0 .. (width - 1)
       /\ i >= 0
       /\ i < size
  \/ i \in 0 .. (width - 1)

\* The result maps each cell to its depth w and sediment s.
applyOpenBoundary(wh, sed) ==
  [i \in DOMAIN wh \cap DOMAIN sed |->
    IF Drained(i) THEN [w |-> 0, s |-> 0] ELSE [w |-> wh[i], s |-> sed[i]]]

(***************************************************************************)
(* simulate: the eight phases in the order of the code.  Each operator     *)
(* runs the phases from its number on, given the fields the earlier phases *)
(* left: w1 is the depth after addWater, fl the fluxes, wv the depth and   *)
(* velocity after phase 3, er the terrain and sediment after phase 4, s5   *)
(* the sediment after transport, w6 the depth after evaporate.             *)
(***************************************************************************)
Water(wv) == [i \in DOMAIN wv |-> wv[i].w]

Returned(w1, fl, wv, er, s5, w6, t7, ob) ==
  [fluxL |-> [i \in DOMAIN fl |-> fl[i].L],
   fluxR |-> [i \in DOMAIN fl |-> fl[i].R],
   fluxT |-> [i \in DOMAIN fl |-> fl[i].T],
   fluxB |-> [i \in DOMAIN fl |-> fl[i].B],
   velocityX |-> [i \in DOMAIN wv |-> wv[i].vx],
   velocityY |-> [i \in DOMAIN wv |-> wv[i].vy],
   terrain |-> t7,
   waterHeight |-> [i \in DOMAIN ob |-> ob[i].w],
   sediment |-> [i \in DOMAIN ob |-> ob[i].s],
   waterIn |-> w1,
   eroded |-> er,
   transported |-> s5,
   evaporated |-> w6]

PhasesFrom6(w1, fl, wv, er, s5, w6, dt) ==
  Returned(w1, fl, wv, er, s5, w6, smoothTerrain(er.th, w6, dt), applyOpenBoundary(w6, s5))

PhasesFrom5(w1, fl, wv, er, dt) ==
  PhasesFrom6(w1, fl, wv, er, transportSediment(er.sed, wv, dt),
              evaporate(Water(wv), dt), dt)

\* Erosion before phase 3 has written the velocities: it works with those
\* the previous call left.
PhasesFrom4StaleVelocity(w1, fl, wv, dt, erosionRateMultiplier) ==
  PhasesFrom5(w1, fl, wv,
              erosionDeposition(terrain, sediment,
                                [i \in DOMAIN wv |-> [vx |-> velocityX[i],
                                                      vy |-> velocityY[i]]],
                                dt, erosionRateMultiplier), dt)

PhasesFrom4(w1, fl, wv, dt, erosionRateMultiplier) ==
  PhasesFrom5(w1, fl, wv,
              erosionDeposition(terrain, sediment, wv, dt, erosionRateMultiplier), dt)

PhasesFrom3(w1, fl, dt, erosionRateMultiplier) ==
  PhasesFrom4(w1, fl, updateWaterAndVelocity(w1, fl, dt), dt, erosionRateMultiplier)

PhasesFrom2(w1, dt, erosionRateMultiplier) ==
  PhasesFrom3(w1, computeFlux(terrain, w1, dt), dt, erosionRateMultiplier)

Phases(dt, flowRate, isRaining, erosionRateMultiplier) ==
  PhasesFrom2(addWater(waterHeight, dt, flowRate, isRaining), dt, erosionRateMultiplier)

\* Float32Array objects, numbered in the order of their creation: the
\* caller's heights array exists before the engine, the constructor creates
\* one array per field, and each simulate() call creates the two scratch
\* arrays newSediment and newHeight.
callerArray == 0
fieldArrays == 8
scratchArrays == 2
Fields == {"waterHeight", "sediment", "fluxL", "fluxR", "fluxT", "fluxB",
           "velocityX", "velocityY"}
FieldNumber(f) ==
  CASE f = "waterHeight" -> 1 [] f = "sediment" -> 2
    [] f = "fluxL" -> 3 [] f = "fluxR" -> 4 [] f = "fluxT" -> 5 [] f = "fluxB" -> 6
    [] f = "velocityX" -> 7 [] f = "velocityY" -> 8

\* The fields and the caller's array as the call leaves them: this.sediment
\* is newSediment, the first array the call created, and the caller's array
\* is handed back.
Store(r, dt, isRaining) ==
  /\ fluxL' = r.fluxL
  /\ fluxR' = r.fluxR
  /\ fluxT' = r.fluxT
  /\ fluxB' = r.fluxB
  /\ velocityX' = r.velocityX
  /\ velocityY' = r.velocityY
  /\ terrain' = r.terrain
  /\ waterHeight' = r.waterHeight
  /\ sediment' = r.sediment
  /\ buffer' = [buffer EXCEPT !.sediment = allocated + 1]
  /\ allocated' = allocated + scratchArrays
  /\ last' = [op |-> "simulate", dt |-> dt, isRaining |-> isRaining,
              waterIn |-> r.waterIn, eroded |-> r.eroded,
              transported |-> r.transported, evaporated |-> r.evaporated,
              returned |-> callerArray]
  /\ UNCHANGED <<width, height, strokes>>

simulate(dt, flowRate, isRaining, erosionRateMultiplier) ==
  Store(Phases(dt, flowRate, isRaining, erosionRateMultiplier), dt, isRaining)

\* reset() without its last line: velocityY keeps its values.
resetKeepsVelocityY ==
  /\ waterHeight' = Zeros
  /\ sediment' = Zeros
  /\ fluxL' = Zeros
  /\ fluxR' = Zeros
  /\ fluxT' = Zeros
  /\ fluxB' = Zeros
  /\ velocityX' = Zeros
  /\ last' = [last EXCEPT !.op = "reset"]
  /\ UNCHANGED <<width, height, terrain, velocityY, buffer, allocated, calls, strokes>>

reset ==
  /\ waterHeight' = Zeros
  /\ sediment' = Zeros
  /\ fluxL' = Zeros
  /\ fluxR' = Zeros
  /\ fluxT' = Zeros
  /\ fluxB' = Zeros
  /\ velocityX' = Zeros
  /\ velocityY' = Zeros
  /\ last' = [last EXCEPT !.op = "reset"]
  /\ UNCHANGED <<width, height, terrain, buffer, allocated, calls, strokes>>

(***************************************************************************)
(* The driver: grids, caller-supplied terrains and per-call arguments.     *)
(* The caller passes dt = Math.min(delta, 0.05), which is 0 when two       *)
(* frames carry the same time stamp, and the erosion rate of the controls  *)
(* or the default 1.0.                                                     *)
(***************************************************************************)
MaxCalls == 3

\* Grid sizes with the terrain handed in: twelve rows are all drained but rows
\* 1 and 0, thirteen rows keep the source row 2 outside the drained rows.
Setups == {<<3, 12, "slope">>, <<4, 12, "slope">>, <<3, 13, "slope">>, <<3, 13, "rough">>}
Dts == {0, Num(0, 16000)}
FlowRates == {Num(0, 500000)}
Multipliers == {Num(0, 100000), One}

\* Heights a caller may hand in: a plain, a slope falling with y from above
\* 1.5, and a dug and filled surface with cells at 0 and at 3.
TerrainOf(kind, w, h) ==
  [i \in 0 .. (w * h - 1) |->
    IF kind = "flat" THEN One
    ELSE IF kind = "slope" THEN Num(2, 0) - (i \div w) * Num(0, 150000) + (i % w) * Num(0, 20000)
    ELSE IF ((i % w) + 2 * (i \div w)) % 4 = 0 THEN 0
    ELSE IF ((i % w) + 2 * (i \div w)) % 4 = 3 THEN Num(3, 0)
    ELSE One + (i % w) * Num(0, 50000)]

\* An engine of the given size whose public fields waterHeight and sediment
\* hold the given arrays and whose other fields are zeroed.
EngineWith(w, h, water, sed) ==
  /\ width = w
  /\ height = h
  /\ waterHeight = water
  /\ sediment = sed
  /\ fluxL = [i \in 0 .. (w * h - 1) |-> 0]
  /\ fluxR = [i \in 0 .. (w * h - 1) |-> 0]
  /\ fluxT = [i \in 0 .. (w * h - 1) |-> 0]
  /\ fluxB = [i \in 0 .. (w * h - 1) |-> 0]
  /\ velocityX = [i \in 0 .. (w * h - 1) |-> 0]
  /\ velocityY = [i \in 0 .. (w * h - 1) |-> 0]
  /\ buffer = [f \in Fields |-> FieldNumber(f)]
  /\ allocated = fieldArrays
  /\ calls = 0
  /\ strokes = 0
  /\ last = [op |-> "new", dt |-> 0, isRaining |-> FALSE,
             waterIn |-> [i \in 0 .. (w * h - 1) |-> 0],
             eroded |-> [th |-> [i \in 0 .. (w * h - 1) |-> 0],
                         sed |-> [i \in 0 .. (w * h - 1) |-> 0]],
             returned |-> callerArray,
             transported |-> [i \in 0 .. (w * h - 1) |-> 0],
             evaporated |-> [i \in 0 .. (w * h - 1) |-> 0]]

\* new ErosionSystem(width, height): every field a zeroed Float32Array.
Constructed(w, h) ==
  EngineWith(w, h, [i \in 0 .. (w * h - 1) |-> 0], [i \in 0 .. (w * h - 1) |-> 0])

Init ==
  \E s \in Setups :
    /\ Constructed(s[1], s[2])
    /\ terrain = TerrainOf(s[3], s[1], s[2])

Simulate ==
  /\ calls < MaxCalls
  /\ \E dt \in Dts, flowRate \in FlowRates, isRaining \in BOOLEAN,
        erosionRateMultiplier \in Multipliers :
       simulate(dt, flowRate, isRaining, erosionRateMultiplier)
  /\ calls' = calls + 1

Reset == reset

Next == Simulate \/ Reset

Spec == Init /\ [][Next]_vars

(***************************************************************************)
(* The rain scenario: an 8x8 grid of uniform terrain 1.0, a fresh engine,  *)
(* and consecutive simulate(terrain, 0.016, 0.5, true) calls.              *)
(***************************************************************************)
RainCalls == 100
ScenarioGrid == <<8, 8>>
ScenarioDt == Num(0, 16000)

RainInit ==
  /\ Constructed(ScenarioGrid[1], ScenarioGrid[2])
  /\ terrain = TerrainOf("flat", ScenarioGrid[1], ScenarioGrid[2])

RainStep ==
  /\ calls < RainCalls
  /\ simulate(ScenarioDt, Num(0, 500000), TRUE, One)
  /\ calls' = calls + 1

RainSpec == RainInit /\ [][RainStep]_vars

(***************************************************************************)
(* The decay scenario: the same grid with waterHeight set to 0.5 in every  *)
(* cell, then simulate calls without rain, all with the dt of the first.   *)
(***************************************************************************)
DecayCalls == 30
DecayDts == {0, Num(0, 16000), Num(0, 33000), Num(0, 50000)}
DecayDepth == Num(0, 500000)

DecayInit ==
  /\ EngineWith(ScenarioGrid[1], ScenarioGrid[2],
                [i \in 0 .. (ScenarioGrid[1] * ScenarioGrid[2] - 1) |-> DecayDepth],
                [i \in 0 .. (ScenarioGrid[1] * ScenarioGrid[2] - 1) |-> 0])
  /\ terrain = TerrainOf("flat", ScenarioGrid[1], ScenarioGrid[2])

DecayStep ==
  /\ calls < DecayCalls
  /\ \E dt \in DecayDts :
       /\ calls = 0 \/ dt = last.dt
       /\ simulate(dt, Num(0, 500000), FALSE, One)
  /\ calls' = calls + 1

DecaySpec == DecayInit /\ [][DecayStep]_vars

(***************************************************************************)
(* The phases of single calls: a few calls on grids of twelve and thirteen *)
(* rows, with every argument of the driver and reset() in between.         *)
(***************************************************************************)
PhaseCalls == 2
PhaseSetups == {<<4, 12, "slope">>, <<3, 13, "slope">>, <<3, 13, "rough">>}

PhaseInit ==
  \E s \in PhaseSetups :
    /\ Constructed(s[1], s[2])
    /\ terrain = TerrainOf(s[3], s[1], s[2])

PhaseStep ==
  /\ calls < PhaseCalls
  /\ \E dt \in Dts, flowRate \in FlowRates, isRaining \in BOOLEAN,
        erosionRateMultiplier \in Multipliers :
       simulate(dt, flowRate, isRaining, erosionRateMultiplier)
  /\ calls' = calls + 1

PhaseSpec == PhaseInit /\ [][PhaseStep \/ Reset]_vars

(***************************************************************************)
(* The array indices a simulate() call uses, with the engine's fields and  *)
(* the arguments as the call left them.                                    *)
(***************************************************************************)
\* The source loop with no test of idx at all.
sourceIndicesUnguarded ==
  {y * width + x : y \in startY .. (startY + sourceRows - 1),
                   x \in startX .. (startX + sourceWidth - 1)}

\* addWater: idx = y * width + x, used when idx < this.waterHeight.length.
sourceIndices ==
  {idx \in {y * width + x : y \in startY .. (startY + sourceRows - 1),
                            x \in startX .. (startX + sourceWidth - 1)} :
     idx < size}

\* applyOpenBoundary: idx of the bottom rows when 0 <= idx < length, and x.
drainIndices ==
  {idx \in {(height - 1 - dr) * width + x : dr \in 0 .. (drainageRows - 1),
                                            x \in 0 .. (width - 1)} :
     idx >= 0 /\ idx < size}
  \cup (0 .. (width - 1))

\* The loops of phases 2, 3, 4, 5 and 7: i itself for every i below size, and
\* i - 1, i + 1, i + width, i - width for the cells that pass the test.
neighbourIndices ==
  Cells \cup UNION {{i - 1, i + 1, i + width, i - width} : i \in {j \in Cells : ~IsBoundary(j)}}

\* sampleBilinear: the four reads at (x, y) unless it returns 0 at once; the
\* floor of an undefined coordinate is undefined, and so is the index.
sampleIndicesAt(x, y) ==
  IF Lt(x, 0) \/ Ge(x, (width - 1) * Scale) \/ Lt(y, 0) \/ Ge(y, (height - 1) * Scale)
  THEN {}
  ELSE IF x = NaN \/ y = NaN THEN {NaN}
  ELSE {(y \div Scale) * width + (x \div Scale),
        (y \div Scale) * width + (x \div Scale) + 1,
        ((y \div Scale) + 1) * width + (x \div Scale),
        ((y \div Scale) + 1) * width + (x \div Scale) + 1}

\* transportSediment: the reads of the samples at (x - u * dt, y - v * dt).
sampleIndices(vx, vy, dt) ==
  UNION {sampleIndicesAt(Sub(X(i) * Scale, Mul(vx[i], dt)),
                         Sub(Y(i) * Scale, Mul(vy[i], dt))) :
           i \in {j \in Cells : ~IsBoundary(j)}}

(***************************************************************************)
(* Grids from 3x3 on: fewer rows than the drain and the source reach for,  *)
(* fewer columns than the source is wide, and six columns by thirteen rows *)
(* with the source inside the interior and outside the drained rows.       *)
(***************************************************************************)
GridCalls == 2
GridWidths == {3, 4, 5, 6}
GridHeights == {3, 4, 5, 12, 13}

GridInit ==
  \E w \in GridWidths, h \in GridHeights :
    /\ Constructed(w, h)
    /\ terrain = TerrainOf("slope", w, h)

GridStep ==
  /\ calls < GridCalls
  /\ \E dt \in Dts, flowRate \in FlowRates, isRaining \in BOOLEAN,
        erosionRateMultiplier \in Multipliers :
       simulate(dt, flowRate, isRaining, erosionRateMultiplier)
  /\ calls' = calls + 1

GridSpec == GridInit /\ [][GridStep]_vars

(***************************************************************************)
(* The pointer tools of the driver (terrain-mesh.tsx, handlePointerDown):  *)
(* dig and fill change the heights array between two frames.  The vertices *)
(* of the plane lie SIZE_X / (width - 1) and SIZE_Z / (height - 1) apart.  *)
(* Handlers and frame callbacks run one at a time, each to its end.        *)
(***************************************************************************)
SIZE_X == Num(9, 0)
SIZE_Z == Num(15, 0)
brushRadius == Num(0, 800000)
brushStrength == Num(0, 150000)

\* positions.getX(i) and positions.getZ(i)
vertexX(i) == ((X(i) * SIZE_X) \div (width - 1)) - (SIZE_X \div 2)
vertexZ(i) == ((Y(i) * SIZE_Z) \div (height - 1)) - (SIZE_Z \div 2)

\* dist = Math.sqrt(dx * dx + dz * dz)
brushDistance(i, px, pz) == Hypot(Sub(vertexX(i), px), Sub(vertexZ(i), pz))

\* influence = (1 - dist / brushRadius) * 0.15
influence(dist) == Mul(Sub(One, Div(dist, brushRadius)), brushStrength)

\* heights[i] = Math.max(0, heights[i] - influence)
digVertex(h, dist) == Max(0, Sub(h, influence(dist)))

\* heights[i] += influence
fillVertex(h, dist) == Add(h, influence(dist))

\* The loop over the vertices: those with dist < brushRadius are changed.
dig(th, px, pz) ==
  [i \in DOMAIN th |->
    IF Lt(brushDistance(i, px, pz), brushRadius)
    THEN digVertex(th[i], brushDistance(i, px, pz)) ELSE th[i]]

fill(th, px, pz) ==
  [i \in DOMAIN th |->
    IF Lt(brushDistance(i, px, pz), brushRadius)
    THEN fillVertex(th[i], brushDistance(i, px, pz)) ELSE th[i]]

\* Points the pointer hits: the vertex in the middle of row 1, and half a
\* unit from it toward row 2.
ToolEvents == 2
ToolSetups == {<<3, 12, "slope">>, <<4, 13, "rough">>}
PointerOffsets == {0, Num(0, 500000)}
PointerPoints ==
  {<<vertexX(width + (width \div 2)), vertexZ(width + (width \div 2)) + off>> :
     off \in PointerOffsets}

ToolInit ==
  \E s \in ToolSetups :
    /\ Constructed(s[1], s[2])
    /\ terrain = TerrainOf(s[3], s[1], s[2])

\* A pointer event with the dig tool selected.
Dig ==
  /\ calls + strokes < ToolEvents
  /\ \E p \in PointerPoints : terrain' = dig(terrain, p[1], p[2])
  /\ strokes' = strokes + 1
  /\ last' = [last EXCEPT !.op = "dig"]
  /\ UNCHANGED <<width, height, waterHeight, sediment, fluxL, fluxR, fluxT, fluxB,
                 velocityX, velocityY, buffer, allocated, calls>>

\* A pointer event with the fill tool selected.
Fill ==
  /\ calls + strokes < ToolEvents
  /\ \E p \in PointerPoints : terrain' = fill(terrain, p[1], p[2])
  /\ strokes' = strokes + 1
  /\ last' = [last EXCEPT !.op = "fill"]
  /\ UNCHANGED <<width, height, waterHeight, sediment, fluxL, fluxR, fluxT, fluxB,
                 velocityX, velocityY, buffer, allocated, calls>>

\* The frame callback: one simulate() call on the shared heights array.
ToolFrame ==
  /\ calls + strokes < ToolEvents
  /\ \E dt \in Dts, flowRate \in FlowRates, isRaining \in BOOLEAN :
       simulate(dt, flowRate, isRaining, One)
  /\ calls' = calls + 1

ToolSpec == ToolInit /\ [][ToolFrame \/ Dig \/ Fill]_vars

(***************************************************************************)
(* The source switched off: on a grid of six columns and thirteen rows the *)
(* driver first calls simulate() with isRaining true, with the dt of its   *)
(* frames (0 when two frames carry the same time stamp), and from some     *)
(* call on with isRaining false and one dt for all the calls that follow.  *)
(* useFrame calls simulate() once in every frame, so a frame that can be   *)
(* taken is taken.                                                         *)
(***************************************************************************)
DryLead == 2
DryCalls == 60
DryGrid == <<6, 13>>
OffDts == {Num(0, 8000), Num(0, 16000)}

DryInit ==
  /\ Constructed(DryGrid[1], DryGrid[2])
  /\ terrain = TerrainOf("slope", DryGrid[1], DryGrid[2])

SourceOn ==
  /\ calls < DryLead
  /\ \E dt \in Dts, flowRate \in FlowRates : simulate(dt, flowRate, TRUE, One)
  /\ calls' = calls + 1

SourceOff ==
  /\ calls >= DryLead
  /\ calls < DryCalls
  /\ \E dt \in OffDts, flowRate \in FlowRates :
       /\ calls = DryLead \/ dt = last.dt
       /\ simulate(dt, flowRate, FALSE, One)
  /\ calls' = calls + 1

Frame == calls < DryCalls /\ calls' = calls + 1

DrySpec == DryInit /\ [][SourceOn \/ SourceOff]_vars /\ WF_calls(Frame)

(***************************************************************************)
(* The sampler on its own: sampleBilinear(this.sediment, x, y) on fields   *)
(* of numbers, at coordinates a quarter of a cell apart from half a cell   *)
(* before the grid to half a cell behind it.                               *)
(***************************************************************************)
SamplerGrids == {<<3, 3>>, <<4, 3>>}
Quarter == Scale \div 4
FieldKinds == {"ramp", "bumps"}
Coordinates(n) == {k * Quarter : k \in (0 - 2) .. (4 * n - 2)}

\* Fields of numbers that are whole multiples of 16 millionths, so that the
\* products with quarter weights are exact.
FieldOf(kind, w, h) ==
  [i \in 0 .. (w * h - 1) |->
    IF kind = "ramp" THEN Num(0, 160000) * (i + 1)
    ELSE IF i % 3 = 0 THEN Num(2, 500000)
    ELSE IF i % 3 = 1 THEN Num(0, 16)
    ELSE Num(0, 10000) * i]

SamplerInit ==
  \E g \in SamplerGrids, kind \in FieldKinds :
    /\ EngineWith(g[1], g[2], [i \in 0 .. (g[1] * g[2] - 1) |-> 0],
                  FieldOf(kind, g[1], g[2]))
    /\ terrain = TerrainOf("flat", g[1], g[2])

Sample ==
  /\ \E x \in Coordinates(width), y \in Coordinates(height) :
       last' = [op |-> "sampleBilinear", x |-> x, y |-> y,
                value |-> sampleBilinear(sediment, x, y)]
  /\ UNCHANGED <<width, height, terrain, waterHeight, sediment, fluxL, fluxR,
                 fluxT, fluxB, velocityX, velocityY, buffer, allocated, calls,
                 strokes>>

SamplerSpec == SamplerInit /\ [][Sample]_vars

(***************************************************************************)
(* Properties.  The coordinates of a cell are spelled out in them, so that *)
(* they do not rest on the tests of the engine they are about.             *)
(***************************************************************************)
Col(i) == i % width
Row(i) == i \div width
OnBoundary(i) ==
  Col(i) = 0 \/ Col(i) = width - 1 \/ Row(i) = 0 \/ Row(i) = height - 1
InDrainageRows(i) == Row(i) = 0 \/ Row(i) >= height - drainageRows
CallReturned == last.op = "simulate"
Dry == \A i \in Cells : waterHeight[i] = 0
FluxSum(i) == Add(Add(Add(fluxL[i], fluxR[i]), fluxT[i]), fluxB[i])

\* C1: after every simulate() call with dt >= 0, waterHeight[i] is a
\* well-defined number >= 0 in every cell.
C1_WaterWellDefined ==
  \A i \in Cells : waterHeight[i] # NaN /\ waterHeight[i] >= 0

\* Beside C1: a depth that is a number is never negative.
WaterNeverNegative ==
  \A i \in Cells : waterHeight[i] = NaN \/ waterHeight[i] >= 0

\* C2: after every simulate() call with dt >= 0, for every multiplier the
\* caller passes, sediment[i] >= 0 in every cell.
C2_SedimentNonNegative ==
  \A i \in Cells : sediment[i] # NaN /\ sediment[i] >= 0

canonicalMaxH == Num(1, 500000)
C4_FluxWithinVolume ==
  CallReturned =>
    \A i \in Cells : Le(Mul(FluxSum(i), last.dt), Mul(last.waterIn[i], CELL_AREA))

\* C5: when simulate() returns, every cell of row 0 and of the last ten rows
\* that exist has waterHeight = 0 and sediment = 0.
C5_DrainageRowsZero ==
  \A i \in Cells : InDrainageRows(i) => waterHeight[i] = 0 /\ sediment[i] = 0

\* C5 witness: a call returned after phase 6 had left water, and phase 5
\* sediment, in cells of the drainage rows.
C5_Witness ==
  /\ CallReturned
  /\ \E i \in Cells : InDrainageRows(i) /\ Gt(last.evaporated[i], 0)
  /\ \E i \in Cells : InDrainageRows(i) /\ Gt(last.transported[i], 0)

\* C6: in every state between calls, the four fluxes and the velocity of
\* every boundary cell are exactly zero.
C6_BoundaryFluxVelocityZero ==
  \A i \in Cells :
    OnBoundary(i) =>
      /\ fluxL[i] = 0 /\ fluxR[i] = 0 /\ fluxT[i] = 0 /\ fluxB[i] = 0
      /\ velocityX[i] = 0 /\ velocityY[i] = 0

\* C6 witness: a call returned that had water on a boundary cell in phase 2
\* and left a positive flux in an interior cell.
C6_Witness ==
  /\ CallReturned
  /\ \E i \in Cells : OnBoundary(i) /\ Gt(last.waterIn[i], 0)
  /\ \E i \in Cells : ~OnBoundary(i) /\ Gt(FluxSum(i), 0)

\* C7: dry idempotence: from a state with waterHeight zero in every cell, a
\* simulate() call with isRaining = false and dt >= 0 leaves it zero in
\* every cell.
C7_DryStaysDry ==
  [][(Dry /\ calls' = calls + 1 /\ ~last'.isRaining) =>
       \A i \in Cells : waterHeight'[i] = 0]_vars

\* The reference sampler: 0 outside [0, width - 1) x [0, height - 1), and
\* inside the bilinear interpolation of the four surrounding cells, written
\* with the four weights in sixteenths for coordinates in quarters.
ReferenceSample(field, x, y) ==
  IF x < 0 \/ x >= (width - 1) * Scale \/ y < 0 \/ y >= (height - 1) * Scale
  THEN 0
  ELSE LET cx == x \div Scale
           cy == y \div Scale
           qx == (x % Scale) \div Quarter
           qy == (y % Scale) \div Quarter
       IN  ( (4 - qx) * (4 - qy) * field[cy * width + cx]
           + qx * (4 - qy) * field[cy * width + cx + 1]
           + (4 - qx) * qy * field[(cy + 1) * width + cx]
           + qx * qy * field[(cy + 1) * width + cx + 1] ) \div 16

Sampled == last.op = "sampleBilinear"
SampledInside ==
  /\ last.x >= 0 /\ last.x < (width - 1) * Scale
  /\ last.y >= 0 /\ last.y < (height - 1) * Scale

\* C8: sampleBilinear(field, x, y) equals the reference sampler: 0 for
\* x < 0, x >= width - 1, y < 0 or y >= height - 1, the bilinear
\* interpolation of the four surrounding cells otherwise, and so exactly
\* field[y * width + x] at integer (x, y).
C8_SamplerMatchesReference ==
  Sampled =>
    /\ last.value = ReferenceSample(sediment, last.x, last.y)
    /\ ~SampledInside => last.value = 0
    /\ (SampledInside /\ last.x % Scale = 0 /\ last.y % Scale = 0) =>
         last.value = sediment[(last.y \div Scale) * width + (last.x \div Scale)]

\* C8 witness: a sample strictly between four cells of different values, and
\* with a value that is none of the four.
C8_Witness ==
  /\ Sampled /\ SampledInside
  /\ last.x % Scale # 0 /\ last.y % Scale # 0
  /\ \A dx \in {0, 1}, dy \in {0, 1} :
       last.value # sediment[((last.y \div Scale) + dy) * width + (last.x \div Scale) + dx]

\* The cells addWater writes on a grid wide and high enough to hold them.
SourceRegion ==
  {y * width + x : x \in startX .. (startX + sourceWidth - 1),
                   y \in startY .. (startY + sourceRows - 1)}

\* C9, as amended: in the rain scenario on the 8x8 grid every call puts water
\* into the source region in phase 1, and leaves waterHeight = 0 in every
\* cell, the source region included, because all eight rows are among the
\* last ten; no terrain cell is below minH.
C9_RainDrainedEverywhere ==
  /\ calls > 0 => \A i \in SourceRegion : Gt(last.waterIn[i], 0)
  /\ \A i \in Cells : waterHeight[i] = 0
  /\ \A i \in Cells : Ge(terrain[i], minH)

\* C9 witness: the hundredth call has returned, with water added in phase 1.
C9_Witness ==
  calls = RainCalls /\ \A i \in SourceRegion : Gt(last.waterIn[i], 0)

\* C9 as stated: after each call water is present in the source region and
\* does not increase from the source rows toward the drainage rows, the
\* drainage rows read 0, and no terrain cell is below minH.
C9_WaterInSourceRegion ==
  calls > 0 =>
    /\ \A i \in SourceRegion : Gt(waterHeight[i], 0)
    /\ \A i \in Cells :
         (Row(i) >= startY /\ Row(i) < height - 1) =>
           Le(waterHeight[i + width], waterHeight[i])
    /\ \A i \in Cells : InDrainageRows(i) => waterHeight[i] = 0
    /\ \A i \in Cells : Ge(terrain[i], minH)

\* (1 - KE * dt) times the depth w, zero below the epsilon.
Decayed(w, dt) ==
  IF Mul(w, One - Mul(KE, dt)) < depthEpsilon THEN 0 ELSE Mul(w, One - Mul(KE, dt))

\* C10, as amended: in the decay scenario on the 8x8 grid each call
\* multiplies the depth of every cell by (1 - KE * dt) in phase 6, and then
\* returns with waterHeight = 0 in every cell, because the drain covers all
\* eight rows: the depth after n >= 1 calls is 0.
C10_DecayThenDrained ==
  [][calls' = calls + 1 =>
       \A i \in Cells :
         /\ last'.evaporated[i] = Decayed(waterHeight[i], last'.dt)
         /\ waterHeight'[i] = 0]_vars

\* C10 witness: the first call with a dt > 0 has returned: phase 6 left
\* 0.5 * (1 - KE * dt) in every cell and the call left 0.
C10_Witness ==
  /\ calls = 1
  /\ last.dt > 0
  /\ \A i \in Cells :
       /\ last.evaporated[i] = Mul(DecayDepth, One - Mul(KE, last.dt))
       /\ last.evaporated[i] < DecayDepth
       /\ waterHeight[i] = 0

\* C10 as stated: each call multiplies the depth by exactly (1 - KE * dt),
\* until it falls below the epsilon and becomes zero.
C10_GeometricDecay ==
  [][calls' = calls + 1 =>
       \A i \in Cells : waterHeight'[i] = Decayed(waterHeight[i], last'.dt)]_vars

(***************************************************************************)
(* The fields a call leaves, seen from the step that made it: primed       *)
(* variables are the fields when simulate() has returned.                  *)
(***************************************************************************)
SimulateStep == calls' = calls + 1
FluxesLeft == [i \in Cells |-> [L |-> fluxL'[i], R |-> fluxR'[i],
                                T |-> fluxT'[i], B |-> fluxB'[i]]]

\* The steps of a call from phase 3 on, told from what the call left: fl are
\* the fluxes left and wv the depths and velocities phase 3 gets from them.
OrderFromPhase3(fl, wv) ==
  /\ \A i \in Cells :
       /\ velocityX'[i] = wv[i].vx
       /\ velocityY'[i] = wv[i].vy
  /\ \E erosionRateMultiplier \in Multipliers :
       last'.eroded = erosionDeposition(terrain, sediment, wv, last'.dt,
                                        erosionRateMultiplier)
  /\ last'.transported = transportSediment(last'.eroded.sed, wv, last'.dt)
  /\ last'.evaporated = evaporate(Water(wv), last'.dt)
  /\ terrain' = smoothTerrain(last'.eroded.th, last'.evaporated, last'.dt)
  /\ \A i \in Cells :
       /\ waterHeight'[i] = IF InDrainageRows(i) THEN 0 ELSE last'.evaporated[i]
       /\ sediment'[i] = IF InDrainageRows(i) THEN 0 ELSE last'.transported[i]

OrderFromPhase2(fl) ==
  /\ fl = computeFlux(terrain, last'.waterIn, last'.dt)
  /\ OrderFromPhase3(fl, updateWaterAndVelocity(last'.waterIn, fl, last'.dt))

\* C11: each simulate() call runs the eight phases once each in the order
\* add water, flux, water and velocity, erosion, transport, evaporation,
\* smoothing, drain: the fluxes left are those of the depth after the source,
\* the velocities left are those of these fluxes, erosion worked with these
\* velocities, transport with the sediment erosion left, evaporation with the
\* depth of phase 3, smoothing with the terrain of erosion and the evaporated
\* depth, and the depth and sediment left are the drained ones of phases 6
\* and 5, which nothing wrote after the drain.
C11_PhasesInOrder ==
  [][SimulateStep =>
      /\ \E flowRate \in FlowRates :
           last'.waterIn = addWater(waterHeight, last'.dt, flowRate, last'.isRaining)
      /\ OrderFromPhase2(FluxesLeft)]_vars

\* A first call returned in which erosion picked up more than the still-water
\* capacity allows: it worked with velocities this very call computed.
C11_Witness ==
  /\ CallReturned
  /\ calls = 1
  /\ \E i \in Cells :
       /\ velocityY[i] # 0
       /\ Gt(last.eroded.sed[i], Mul(Mul(KS, minCapacity), last.dt))

\* C12: simulate() changes the caller's terrain array in place and hands that
\* same array back: what it returns is the array passed in, of unchanged
\* length, holding the heights erosion, deposition and smoothing computed,
\* and no field of the engine refers to it when the call has returned.
C12_TerrainInPlace ==
  [][SimulateStep =>
      /\ last'.returned = callerArray
      /\ DOMAIN terrain' = DOMAIN terrain
      /\ terrain' = newHeight(last'.eroded.th, last'.evaporated, last'.dt)
      /\ \A f \in Fields : buffer'[f] # callerArray]_vars

\* A returned call in which erosion took soil from a cell and smoothing moved
\* the height of a cell, both seen in the caller's array.
C12_Witness ==
  /\ CallReturned
  /\ last.returned = callerArray
  /\ \E i \in Cells : Gt(last.eroded.sed[i], 0)
  /\ \E i \in Cells : terrain[i] # last.eroded.th[i]

ResetStep == calls' = calls /\ last'.op = "reset"

\* C13: reset() sets every cell of the eight fields to zero, leaves width and
\* height as they are and replaces no array; the fields are then those of a
\* newly constructed engine of the same dimensions.
C13_ResetAsConstructed ==
  [][ResetStep =>
      /\ width' = width
      /\ height' = height
      /\ buffer' = buffer
      /\ \A i \in 0 .. (width * height - 1) :
           /\ waterHeight'[i] = 0 /\ sediment'[i] = 0
           /\ fluxL'[i] = 0 /\ fluxR'[i] = 0 /\ fluxT'[i] = 0 /\ fluxB'[i] = 0
           /\ velocityX'[i] = 0 /\ velocityY'[i] = 0
      /\ \A f \in {waterHeight', sediment', fluxL', fluxR', fluxT', fluxB',
                    velocityX', velocityY'} :
           DOMAIN f = 0 .. (width * height - 1)]_vars

\* reset() after a call that had left water, sediment, flux and velocity.
C13_Witness ==
  /\ last.op = "reset"
  /\ \E i \in Cells : ~InDrainageRows(i) /\ Gt(last.evaporated[i], 0)
  /\ \E i \in Cells : ~InDrainageRows(i) /\ Gt(last.transported[i], 0)
  /\ waterHeight = Zeros
  /\ sediment = Zeros
  /\ velocityY = Zeros

\* C14: every field of the engine, sediment included, refers for the whole
\* lifetime of the engine to the array allocated at construction: no
\* simulate() or reset() call replaces a field's array, so a reference taken
\* before a call still denotes the engine's field after it.
C14_FieldArraysKept ==
  [][\A f \in Fields : buffer'[f] = buffer[f]]_vars

\* Beside C14: the seven fields other than sediment keep their arrays.
OtherFieldArraysKept ==
  \A f \in Fields \ {"sediment"} : buffer[f] = FieldNumber(f)

\* sumFlux of an interior cell before the rescaling, from the fluxes the
\* previous call left, the terrain and the depth wh after the source.
UnscaledSum(wh, factor, i) ==
  Add(Add(Add(outFlux(fluxL[i], factor, surface(terrain, wh, i), surface(terrain, wh, i - 1)),
              outFlux(fluxR[i], factor, surface(terrain, wh, i), surface(terrain, wh, i + 1))),
          outFlux(fluxT[i], factor, surface(terrain, wh, i), surface(terrain, wh, i + width))),
      outFlux(fluxB[i], factor, surface(terrain, wh, i), surface(terrain, wh, i - width)))

\* The rescaling divides when sumFlux > 0, by sumFlux * dt.
RescalingDividesByZero(sumFlux, dt) == Gt(sumFlux, 0) /\ Mul(sumFlux, dt) = 0

\* The velocity divides when the depth exceeds 0.0001, by CELL_AREA * depth.
VelocityDividesByZero(w) == Gt(w, depthEpsilon) /\ Mul(CELL_AREA, w) = 0

\* The depth of cell i after phase 3, from the fluxes the call left.
DepthAfterPhase3(fl, i) == newDepth(last'.waterIn, fl, last'.dt, i)

NoZeroDenominatorIn(fl) ==
  \A i \in Cells :
    ~OnBoundary(i) =>
      /\ ~RescalingDividesByZero(UnscaledSum(last'.waterIn, fluxFactor(last'.dt), i),
                                 last'.dt)
      /\ ~VelocityDividesByZero(DepthAfterPhase3(fl, i))

\* C15: no division evaluated during simulate() has a zero denominator, for
\* every reachable state and every dt >= 0, dt = 0 included: the rescaling's
\* division by sumFlux * dt and the velocity's division by cellArea *
\* waterHeight are guarded, so no undefined value enters a field.
C15_NoZeroDenominator ==
  [][SimulateStep =>
      /\ NoZeroDenominatorIn(FluxesLeft)
      /\ \A i \in Cells :
           /\ fluxL'[i] # NaN /\ fluxR'[i] # NaN /\ fluxT'[i] # NaN /\ fluxB'[i] # NaN
           /\ velocityX'[i] # NaN /\ velocityY'[i] # NaN
           /\ waterHeight'[i] # NaN /\ sediment'[i] # NaN]_vars

\* Beside C15: the velocity's division is guarded in every call, and the
\* rescaling's in every call with dt > 0.
DivisionsGuardedForPositiveDt ==
  [][SimulateStep =>
      \A i \in Cells :
        ~OnBoundary(i) =>
          /\ ~VelocityDividesByZero(DepthAfterPhase3(FluxesLeft, i))
          /\ last'.dt > 0 =>
               ~RescalingDividesByZero(
                  UnscaledSum(last'.waterIn, fluxFactor(last'.dt), i), last'.dt)]_vars

\* Beside C15: no velocity is ever undefined.
VelocityDefined ==
  \A i \in Cells : velocityX[i] # NaN /\ velocityY[i] # NaN

\* C16: on every grid of at least 3x3 cells with a terrain of width * height
\* heights, every index simulate() reads or writes at (the neighbours i - 1,
\* i + 1, i - width, i + width, the source, the drain and the four reads of
\* each sample) lies in 0 .. width * height - 1.
C16_IndicesInRange ==
  CallReturned =>
    /\ width >= 3 /\ height >= 3 /\ DOMAIN terrain = 0 .. (width * height - 1)
    /\ \A idx \in neighbourIndices \cup drainIndices
                  \cup sampleIndices(velocityX, velocityY, last.dt)
                  \cup (IF last.isRaining THEN sourceIndices ELSE {}) :
         idx >= 0 /\ idx < width * height

\* A raining call on a grid of three rows, where the source reaches past the
\* last row and the drain past the first, with the samples read.
C16_Witness ==
  /\ CallReturned
  /\ last.isRaining
  /\ height = 3
  /\ sourceIndicesUnguarded # sourceIndices
  /\ sampleIndices(velocityX, velocityY, last.dt) # {}

\* C17: in every state seen after a simulate() call, every cell whose depth
\* is at most 0.0001 has velocityX = 0 and velocityY = 0, the cells whose
\* water evaporation snapped away or the drain removed in that call included.
C17_DryCellsStill ==
  CallReturned =>
    \A i \in Cells :
      Le(waterHeight[i], depthEpsilon) => velocityX[i] = 0 /\ velocityY[i] = 0

\* Beside C17: the velocity left is zero wherever the depth was at most
\* 0.0001 when phase 3 computed it.
StillWhereDryInPhase3 ==
  [][SimulateStep =>
      \A i \in Cells :
        ~OnBoundary(i) /\ ~Gt(DepthAfterPhase3(FluxesLeft, i), depthEpsilon) =>
          velocityX'[i] = 0 /\ velocityY'[i] = 0]_vars

\* The source rectangle: rows 2 and 3, the four columns from
\* floor((width - 4) / 2) on.
InSourceRectangle(i) ==
  /\ Row(i) \in {2, 3}
  /\ Col(i) >= (width - 4) \div 2
  /\ Col(i) < ((width - 4) \div 2) + 4

\* The depth phase 1 leaves when the source adds amount to its rectangle.
SourceAdds(amount, isRaining) ==
  [i \in Cells |-> IF isRaining /\ InSourceRectangle(i)
                   THEN Add(waterHeight[i], amount) ELSE waterHeight[i]]

\* C18: phase 1 changes no cell of waterHeight when isRaining is false, and
\* when it is true exactly the cells of the source rectangle gain
\* flowRate * dt * 10 each and no other cell changes, on every grid of at
\* least 3x3 cells.
C18_SourceRectangleOnly ==
  [][SimulateStep =>
      \E flowRate \in FlowRates :
        last'.waterIn =
          SourceAdds(Mul(Mul(flowRate, last'.dt), Num(10, 0)), last'.isRaining)]_vars

\* Beside C18: the same on grids at least as wide as the source.
SourceRectangleOnlyFromWidth4 ==
  [][SimulateStep /\ width >= 4 =>
      \E flowRate \in FlowRates :
        last'.waterIn =
          SourceAdds(Mul(Mul(flowRate, last'.dt), Num(10, 0)), last'.isRaining)]_vars

\* Orders in which a loop may go through the cells: the code's, its reverse,
\* and the odd cells before the even ones.
Ascending == [k \in 1 .. size |-> k - 1]
Descending == [k \in 1 .. size |-> size - k]
OddsFirst ==
  [k \in 1 .. size |->
     IF k <= size \div 2 THEN 2 * k - 1 ELSE 2 * (k - (size \div 2)) - 2]
Orders == {Ascending, Descending, OddsFirst}

\* C19: phases 5 and 7 read a frozen snapshot: the new sediment of an
\* interior cell is the sample of the sediment as phase 4 left it, the new
\* height of an interior cell comes from the heights of the cell and its four
\* neighbours as phase 4 left them, and either loop gives the same result in
\* every order of the cells.
C19_FrozenSnapshot ==
  [][SimulateStep =>
      /\ \A i \in Cells :
           ~OnBoundary(i) =>
             /\ last'.transported[i] =
                  sampleBilinear(last'.eroded.sed,
                                 Sub(Col(i) * Scale, Mul(velocityX'[i], last'.dt)),
                                 Sub(Row(i) * Scale, Mul(velocityY'[i], last'.dt)))
             /\ terrain'[i] =
                  smoothCell(last'.eroded.th[i], avgNeighbor(last'.eroded.th, i),
                             effectiveSmoothingAmount(last'.evaporated[i], last'.dt))
      /\ \A order \in Orders :
           /\ transportLoop(order, 1, last'.eroded.sed, last'.eroded.sed,
                            [i \in Cells |-> [vx |-> velocityX'[i], vy |-> velocityY'[i]]],
                            last'.dt) = last'.transported
           /\ smoothLoop(order, 1, last'.eroded.th, last'.eroded.th,
                         last'.evaporated, last'.dt) = terrain']_vars

\* A returned call in which transport moved sediment between cells and
\* smoothing moved heights.
C19_Witness ==
  /\ CallReturned
  /\ \E i \in Cells : Gt(last.eroded.sed[i], 0) /\ last.transported[i] # last.eroded.sed[i]
  /\ \E i \in Cells : Gt(last.transported[i], 0) /\ last.eroded.sed[i] = 0
  /\ \E i \in Cells : terrain[i] # last.eroded.th[i]

\* What phase 4 left in cell i.
ErodedAt(i) == [h |-> last'.eroded.th[i], s |-> last'.eroded.sed[i]]

\* The heights the visit of cell i reads when the loop goes up through the
\* cells and writes in place: those phase 4 left in the cells before i, and
\* those of the start of the phase from i on.
HeightsAtVisit(i) ==
  [j \in Cells |-> IF j < i THEN last'.eroded.th[j] ELSE terrain[j]]

VelocitiesOfCall == [i \in Cells |-> [vx |-> velocityX'[i], vy |-> velocityY'[i]]]

\* C20, as amended: phase 4 visits the cells in ascending order and writes
\* the terrain in place, so the slope of a cell comes from the heights its
\* left and lower neighbours have after their own visit and from the
\* start-of-phase heights of its right and upper neighbours; skipped cells
\* keep their height and sediment.
C20_SlopeFromHeightsAtVisit ==
  [][SimulateStep =>
      \E erosionRateMultiplier \in Multipliers :
        \A i \in Cells :
          IF OnBoundary(i) \/ Row(i) >= height - drainageZone
          THEN ErodedAt(i) = [h |-> terrain[i], s |-> sediment[i]]
          ELSE ErodedAt(i) = erodeCell(HeightsAtVisit(i), sediment, VelocitiesOfCall,
                                       last'.dt, erosionRateMultiplier, i)]_vars

\* A returned call in which erosion changed two cells one above the other,
\* in flowing water.
C20_Witness ==
  /\ CallReturned
  /\ \E i \in Cells :
       /\ Row(i) + 1 < height - drainageZone
       /\ ~OnBoundary(i)
       /\ Gt(last.eroded.sed[i], 0)
       /\ Gt(last.eroded.sed[i + width], 0)
       /\ velocityY[i + width] # 0

\* C20: in phase 4 the slope of every cell comes from the heights as they
\* stood at the start of the phase: eroding or depositing at one cell changes
\* neither slope, capacity nor amount of another cell in the same call, and
\* the result does not depend on the order of the visits.
C20_SlopeFromSnapshot ==
  [][SimulateStep =>
      \E erosionRateMultiplier \in Multipliers :
        \A i \in Cells :
          ~(OnBoundary(i) \/ Row(i) >= height - drainageZone) =>
            ErodedAt(i) = erodeCell(terrain, sediment, VelocitiesOfCall,
                                    last'.dt, erosionRateMultiplier, i)]_vars

\* C21: phase 4 conserves material in every cell and every call: what
\* sediment[i] gains is what terrain[i] was lowered by, what it loses is what
\* terrain[i] was raised by, so terrain[i] + sediment[i] is the same before
\* and after the phase, also when the floor or the ceiling clamp applies.
C21_MaterialConserved ==
  [][SimulateStep =>
      \A i \in Cells :
        /\ Sub(last'.eroded.sed[i], sediment[i]) = Sub(terrain[i], last'.eroded.th[i])
        /\ Add(last'.eroded.th[i], last'.eroded.sed[i]) = Add(terrain[i], sediment[i])]_vars

\* Beside C21: the same for the cells whose height phase 4 found and left
\* strictly inside the clamps.
ConservedInsideClamps ==
  [][SimulateStep =>
      \A i \in Cells :
        (Gt(terrain[i], minH) /\ Lt(terrain[i], maxH)
           /\ Gt(last'.eroded.th[i], minH) /\ Lt(last'.eroded.th[i], maxH)) =>
          Add(last'.eroded.th[i], last'.eroded.sed[i]) = Add(terrain[i], sediment[i])]_vars

\* What phase 4 lowered and raised the height of cell i by.
LoweredInPhase4(i) == Sub(terrain[i], last'.eroded.th[i])
RaisedInPhase4(i) == Sub(last'.eroded.th[i], terrain[i])

\* C22: the per-step caps of phase 4: for dt >= 0 and a multiplier >= 0 one
\* simulate() call lowers the height of a cell by erosion by at most 0.05
\* and raises it by deposition by at most min(sediment held before the
\* phase, 0.01), whatever the velocity, slope and capacity of the cell.  The
\* cells are those whose height the phase finds within the clamps, so that
\* no change is a clamp's doing.
C22_StepCaps ==
  [][SimulateStep =>
      \A i \in Cells :
        (Ge(terrain[i], minH) /\ Le(terrain[i], maxH)) =>
          /\ Le(LoweredInPhase4(i), Num(0, 50000))
          /\ Le(RaisedInPhase4(i), Min(sediment[i], Num(0, 10000)))]_vars

\* Beside C22: the caps where the sediment of the cell and the heights of
\* its four neighbours are numbers.
StepCapsOfNumbers ==
  [][SimulateStep =>
      \A i \in Cells :
        (Ge(terrain[i], minH) /\ Le(terrain[i], maxH) /\ sediment[i] # NaN
           /\ (~OnBoundary(i) =>
                 /\ terrain[i - 1] # NaN /\ terrain[i + 1] # NaN
                 /\ terrain[i - width] # NaN /\ last'.eroded.th[i - 1] # NaN
                 /\ last'.eroded.th[i - width] # NaN /\ terrain[i + width] # NaN)) =>
          /\ Le(LoweredInPhase4(i), Num(0, 50000))
          /\ Le(RaisedInPhase4(i), Min(sediment[i], Num(0, 10000)))]_vars

\* Beside C22: the caps on the net change of every cell, the cells the
\* clamps move included.
StepCapsOfEveryCell ==
  [][SimulateStep =>
      \A i \in Cells :
        /\ Le(LoweredInPhase4(i), Num(0, 50000))
        /\ Le(RaisedInPhase4(i), Min(sediment[i], Num(0, 10000)))]_vars

\* C23: phase 4 leaves terrain[i] and sediment[i] as they are in every
\* boundary cell and in every cell of the drainage zone (rows y >=
\* height - 10); on a grid of at most ten rows it changes no cell at all.
C23_SkippedCellsKept ==
  [][SimulateStep =>
      /\ \A i \in Cells :
           (OnBoundary(i) \/ Row(i) >= height - 10) =>
             /\ last'.eroded.th[i] = terrain[i]
             /\ last'.eroded.sed[i] = sediment[i]
      /\ height <= 10 => last'.eroded = [th |-> terrain, sed |-> sediment]]_vars

\* A call with dt > 0 returned on a grid of at most ten rows with water
\* flowing over an interior cell, which phase 4 passed over.
C23_Witness ==
  /\ CallReturned
  /\ height <= 10
  /\ last.dt > 0
  /\ \E i \in Cells : ~OnBoundary(i) /\ velocityY[i] # 0 /\ velocityY[i] # NaN
  /\ last.eroded.sed = Zeros

\* C24: simulate() never changes the height of a boundary cell (x = 0,
\* x = width - 1, y = 0 or y = height - 1): neither erosion and deposition
\* nor smoothing write it, so a boundary height outside [0.01, 2.5] that the
\* caller supplied is neither clamped nor altered.
C24_BoundaryTerrainKept ==
  [][SimulateStep =>
      \A i \in Cells :
        OnBoundary(i) => last'.eroded.th[i] = terrain[i] /\ terrain'[i] = terrain[i]]_vars

\* A call returned that clamped an interior height to 2.5 and left boundary
\* heights of 0 and of 3.
C24_Witness ==
  /\ CallReturned
  /\ \E i \in Cells : ~OnBoundary(i) /\ terrain[i] = maxH /\ Gt(last.eroded.th[i], maxH)
  /\ \E i \in Cells : OnBoundary(i) /\ terrain[i] = 0
  /\ \E i \in Cells : OnBoundary(i) /\ terrain[i] = Num(3, 0)

\* The fields before a call: no water and no velocity anywhere.
StillAndDry ==
  \A i \in Cells : waterHeight[i] = 0 /\ velocityX[i] = 0 /\ velocityY[i] = 0

\* KS * (0.01 - sediment) * dt * erosionRateMultiplier
DryErosion(s, dt, erosionRateMultiplier) ==
  Mul(Mul(Mul(KS, Sub(Num(0, 10000), s)), dt), erosionRateMultiplier)

\* C25: the capacity is never below 0.01, so on a completely dry grid
\* (waterHeight and velocity zero everywhere, isRaining false) a simulate()
\* call with dt > 0 and a multiplier > 0 erodes every interior cell outside
\* the drainage zone whose sediment is below 0.01: its sediment rises by
\* KS * (0.01 - sediment) * dt * erosionRateMultiplier, in phase 4 and in the
\* fields the call leaves, and does not exceed 0.01 when
\* KS * dt * erosionRateMultiplier <= 1.
C25_DryErosionToFloorCapacity ==
  [][(SimulateStep /\ StillAndDry /\ ~last'.isRaining /\ last'.dt > 0) =>
      \E erosionRateMultiplier \in Multipliers :
        \A i \in Cells :
          (~OnBoundary(i) /\ Row(i) < height - 10 /\ Lt(sediment[i], Num(0, 10000))) =>
            /\ last'.eroded.sed[i] =
                 Add(sediment[i], DryErosion(sediment[i], last'.dt, erosionRateMultiplier))
            /\ Gt(last'.eroded.sed[i], sediment[i])
            /\ sediment'[i] = last'.eroded.sed[i]
            /\ Mul(Mul(KS, last'.dt), erosionRateMultiplier) <= One =>
                 Le(sediment'[i], Num(0, 10000))]_vars

\* A second dry call in a row has returned: it found sediment between 0 and
\* 0.01 in an interior cell and added to it.
C25_Witness ==
  /\ CallReturned
  /\ calls = 2
  /\ ~last.isRaining
  /\ last.dt > 0
  /\ \A i \in Cells : last.waterIn[i] = 0 /\ waterHeight[i] = 0
  /\ \E i \in Cells :
       /\ ~OnBoundary(i)
       /\ Gt(last.eroded.sed[i], Mul(Mul(KS, Num(0, 10000)), last.dt))
       /\ Lt(sediment[i], Num(0, 10000))

\* Beside C25: the same where the heights of the four neighbours are numbers.
DryErosionOfNumbers ==
  [][(SimulateStep /\ StillAndDry /\ ~last'.isRaining /\ last'.dt > 0) =>
      \E erosionRateMultiplier \in Multipliers :
        \A i \in Cells :
          (~OnBoundary(i) /\ Row(i) < height - 10 /\ Lt(sediment[i], Num(0, 10000))
             /\ terrain[i + 1] # NaN /\ terrain[i + width] # NaN
             /\ last'.eroded.th[i - 1] # NaN /\ last'.eroded.th[i - width] # NaN) =>
            /\ last'.eroded.sed[i] =
                 Add(sediment[i], DryErosion(sediment[i], last'.dt, erosionRateMultiplier))
            /\ Gt(last'.eroded.sed[i], sediment[i])
            /\ Le(last'.eroded.sed[i], Num(0, 10000))]_vars

\* C26: under every interleaving of the per-frame simulate() calls with dig
\* and fill pointer events on the shared heights array, dig never makes a
\* height negative, and right after every simulate() call every interior
\* cell is within [0.01, 2.5].
C26_ToolsAndFramesKeepRange ==
  /\ \A i \in Cells : ~Lt(terrain[i], 0)
  /\ CallReturned =>
       \A i \in Cells :
         ~OnBoundary(i) => Ge(terrain[i], Num(0, 10000)) /\ Le(terrain[i], Num(2, 500000))

\* Beside C26: the same for the heights that are numbers.
ToolsAndFramesKeepNumbersInRange ==
  /\ \A i \in Cells : ~Lt(terrain[i], 0)
  /\ CallReturned =>
       \A i \in Cells :
         (~OnBoundary(i) /\ terrain[i] # NaN) =>
           Ge(terrain[i], Num(0, 10000)) /\ Le(terrain[i], Num(2, 500000))

\* Beside C26: a dig met a height below its influence and left 0.
DugToZero == last.op = "dig" /\ \E i \in Cells : ~OnBoundary(i) /\ terrain[i] = 0

\* The total water volume of a depth field: the sum over the cells, undefined
\* when a depth is.
RECURSIVE SumTo(_, _)
SumTo(depths, k) == IF k < 0 THEN 0 ELSE depths[k] + SumTo(depths, k - 1)
Volume(depths) ==
  IF \E i \in DOMAIN depths : depths[i] = NaN THEN NaN ELSE Clip(SumTo(depths, size - 1))

\* The depth of cell i in phase 3 before the clamp to >= 0.
UnclampedDepth(fl, i) ==
  Add(last'.waterIn[i],
      Div(Mul(last'.dt, Sub(inflow(fl, i), outflow(fl, i))), CELL_AREA))

ClampIdle(fl) == \A i \in Cells : ~OnBoundary(i) => ~Lt(UnclampedDepth(fl, i), 0)

\* C27: with isRaining false and 0 < dt <= 0.05 a simulate() call never
\* increases the total water volume, the sum of waterHeight over all cells:
\* phases 2 and 3 move water between interior cells or remove it, evaporation
\* and the drain only reduce depths, and the clamp of waterHeight to >= 0 in
\* phase 3 is never the reason a value changes.
C27_VolumeNeverGrows ==
  [][(SimulateStep /\ ~last'.isRaining /\ last'.dt > 0 /\ last'.dt <= Num(0, 50000)) =>
      /\ Le(Volume(last'.evaporated), Volume(waterHeight))
      /\ Le(Volume(waterHeight'), Volume(last'.evaporated))
      /\ ClampIdle(FluxesLeft)]_vars

\* Beside C27: the same where the volume before the call is a number and no
\* height is undefined.
VolumeOfNumbersNeverGrows ==
  [][(SimulateStep /\ ~last'.isRaining /\ last'.dt > 0 /\ last'.dt <= Num(0, 50000)
        /\ Volume(waterHeight) # NaN /\ \A i \in Cells : terrain[i] # NaN) =>
      /\ Le(Volume(last'.evaporated), Volume(waterHeight))
      /\ Le(Volume(waterHeight'), Volume(last'.evaporated))
      /\ ClampIdle(FluxesLeft)]_vars

\* A depth that is not a number.
UndefinedWater == \E i \in Cells : waterHeight[i] = NaN

WaterOfNumbersDisappears == <>[](Dry \/ UndefinedWater)

\* Beside C28: without rain an undefined depth outside the drained rows stays
\* undefined.
UndefinedWaterStays ==
  [][(SimulateStep /\ ~last'.isRaining) =>
       \A i \in Cells :
         (waterHeight[i] = NaN /\ ~OnBoundary(i) /\ ~InDrainageRows(i)) =>
           waterHeight'[i] = NaN]_vars

\* C29: on a grid with width >= 6 and height >= 5, from a constructed engine
\* on, every boundary cell has waterHeight 0 and sediment 0 in every state
\* that simulate() calls reach: the boundary cells never receive the water
\* that the interior cells next to them emit toward them.
C29_BoundaryStaysEmpty ==
  (width >= 6 /\ height >= 5) =>
    \A i \in Cells : OnBoundary(i) => waterHeight[i] = 0 /\ sediment[i] = 0

\* A call returned on such a grid with an interior cell of the second column
\* emitting water toward the boundary cell on its left, outside the drained
\* rows.
C29_Witness ==
  /\ width >= 6
  /\ height >= 5
  /\ CallReturned
  /\ \E i \in Cells :
       /\ Col(i) = 1
       /\ ~OnBoundary(i)
       /\ ~InDrainageRows(i - 1)
       /\ Gt(fluxL[i], 0)
       /\ Gt(waterHeight[i], 0)
       /\ waterHeight[i - 1] = 0

\* Beside C29: on such a grid the boundary cells hold no water and no
\* sediment between the phases of a call either.
BoundaryEmptyBetweenPhases ==
  (width >= 6 /\ height >= 5) =>
    \A i \in Cells :
      OnBoundary(i) =>
        /\ last.waterIn[i] = 0
        /\ last.evaporated[i] = 0
        /\ last.eroded.sed[i] = 0
        /\ last.transported[i] = 0

\* Beside C29: on a grid of five columns the source reaches the left column.
NarrowBoundaryEmpty ==
  \A i \in Cells : OnBoundary(i) => waterHeight[i] = 0 /\ sediment[i] = 0

\* The lowest and the highest of the heights of cell i and its four
\* neighbours.
LowestAround(th, i) ==
  Min(th[i], Min(Min(th[i - 1], th[i + 1]), Min(th[i + width], th[i - width])))
HighestAround(th, i) ==
  Max(th[i], Max(Max(th[i - 1], th[i + 1]), Max(th[i + width], th[i - width])))

\* Every height lies within [0.01, 2.5].
HeightsInRange(th) == \A i \in DOMAIN th : Ge(th[i], minH) /\ Le(th[i], maxH)

\* After phase 7 every interior height lies between the lowest and the
\* highest of the heights phase 7 found at the cell and its four neighbours,
\* and no height lies above the highest or below the lowest of the grid.
NoNewExtremum ==
  /\ \A i \in Cells :
       ~OnBoundary(i) =>
         /\ Ge(terrain'[i], LowestAround(last'.eroded.th, i))
         /\ Le(terrain'[i], HighestAround(last'.eroded.th, i))
  /\ \A i \in Cells :
       /\ \E j \in Cells : Le(terrain'[i], last'.eroded.th[j])
       /\ \E j \in Cells : Ge(terrain'[i], last'.eroded.th[j])

\* C30: smoothing creates no new extremum: for 0 <= dt <= 0.05 and heights
\* within [0.01, 2.5] before phase 7, the smoothed height of every interior
\* cell lies between the minimum and the maximum of the heights before the
\* phase of the cell and its four neighbours, so phase 7 never raises the
\* maximum height of the grid nor lowers its minimum.
C30_NoNewExtremum ==
  [][(SimulateStep /\ last'.dt >= 0 /\ last'.dt <= Num(0, 50000)
        /\ HeightsInRange(last'.eroded.th)) => NoNewExtremum]_vars

\* Beside C30: the same where every depth phase 7 reads is a number.
NoNewExtremumOverNumbers ==
  [][(SimulateStep /\ last'.dt >= 0 /\ last'.dt <= Num(0, 50000)
        /\ HeightsInRange(last'.eroded.th)
        /\ \A i \in Cells : last'.evaporated[i] # NaN) => NoNewExtremum]_vars

\* A call with dt > 0 on heights within the range that smoothed a wet
\* interior cell to another height, every depth a number.
SmoothedInsideRange ==
  /\ CallReturned
  /\ last.dt > 0
  /\ HeightsInRange(last.eroded.th)
  /\ \A i \in Cells : last.evaporated[i] # NaN
  /\ \E i \in Cells :
       ~OnBoundary(i) /\ Gt(last.evaporated[i], 0) /\ terrain[i] # last.eroded.th[i]

====
